---- MODULE Spec2Model ----
(***************************************************************************)
(* JarvisBot firmware (jarvis.ino): the setup() sequence and the loop()    *)
(* that reads one serial command byte, drives the L298N motor pins, and    *)
(* animates the SSD1306 face with a millis()-driven blink timer.           *)
(*                                                                         *)
(* The 32-bit millis() clock is kept at its full width as a pair of        *)
(* 16-bit limbs <<hi, lo>>, so that now - lastBlinkChange is the unsigned  *)
(* difference modulo 2^32 of the sketch.                                   *)
(***************************************************************************)
EXTENDS Integers, Sequences, FiniteSets, TLC

VARIABLES pc, pin, currentFace, blinkOpen, lastBlinkChange, clock,
          rx, cmd, buffer, screen, dcalls, sout, hist

vars == <<pc, pin, currentFace, blinkOpen, lastBlinkChange, clock,
          rx, cmd, buffer, screen, dcalls, sout, hist>>

(* ---------------- bounds of the model ---------------- *)

\* bytes the serial receive queue holds at most
MaxQueue == 2

\* longest time between two consecutive millis() reads while blinking, in
\* units of 65536 ms (one step of the high limb); with the longest dwell
\* added it stays below 2^32 ms, so a difference modulo 2^32 is the time
\* that has really passed
MaxLoopTicks == 32768

(* ---------------- pins and levels ---------------- *)

ENA == 5
IN1 == 7
IN2 == 8
ENB == 6
IN3 == 9
IN4 == 10

LOW == 0
HIGH == 1

Pins == {ENA, IN1, IN2, ENB, IN3, IN4}

(* ---------------- face modes and blink constants ---------------- *)

FACE_BLINK == "FACE_BLINK"
FACE_THINK == "FACE_THINK"
FaceMode == {FACE_BLINK, FACE_THINK}

BLINK_OPEN_DURATION == 3000
BLINK_CLOSED_DURATION == 200

(* ---------------- unsigned long arithmetic (32 bits, two limbs) -------- *)

LimbBase == 65536

U32(n) == <<n \div LimbBase, n % LimbBase>>

\* a - b modulo 2^32
Sub32(a, b) ==
  LET lo == a[2] - b[2]
      borrow == IF lo < 0 THEN 1 ELSE 0
      hi == a[1] - b[1] - borrow
  IN <<(hi + LimbBase) % LimbBase, (lo + LimbBase) % LimbBase>>

\* a >= b on unsigned 32-bit values
Geq32(a, b) == a[1] > b[1] \/ (a[1] = b[1] /\ a[2] >= b[2])

(* ---------------- the clock values the model reads ---------------- *)

\* millis() values just before the counter wraps (2^32 - 100)
PreWrap == Sub32(U32(0), U32(100))

\* a millis() value half way round the counter (2^31)
MidClock == <<LimbBase \div 2, 0>>

ClockPoints ==
  {U32(0), U32(99), U32(100), U32(2899), U32(2900), U32(2999), U32(3000),
   U32(3199), U32(3200), MidClock, PreWrap}

\* clock is the millisecond counter at the last moment the program looked at
\* it. The values a millis() call may return when the counter was last seen at
\* prev: while the face is blinking loop() reads it every iteration, so the
\* step from one read to the next is bounded, and the counter goes round and
\* round; the time that passes while the face is Thinking is the action
\* ThinkingTime.
MillisReads(prev) ==
  {p \in ClockPoints : Geq32(<<MaxLoopTicks, 0>>, Sub32(p, prev))}

(* ---------------- serial input ---------------- *)

Bytes == {"F", "B", "R", "L", "S", "O", "T", "Z", "f"}
MotorBytes == {"F", "B", "R", "L", "S"}
KnownBytes == MotorBytes \cup {"O", "T"}
NoCmd == "none"

FaceBytes == {"O", "T"}

(* ---------------- history of the dispatched commands ---------------- *)

\* hist records what the program has been told so far and reads none of it:
\*   motor    the most recent motor byte dispatched (NoCmd before the first)
\*   face     the most recent face byte dispatched (NoCmd before the first)
\*   flipped  a blink has flipped the phase since that face byte
\*   again    the byte dispatched in this iteration repeats the most recent
\*            byte of its kind
\*   run      the bytes dispatched since setup(), as long as they are a prefix
\*            of Scenario, one per iteration, with every clock read 0
Scenario == <<"F", "O", "T", "S">>
OffScenario == <<"-">>

HistInit ==
  [motor |-> NoCmd, face |-> NoCmd, flipped |-> FALSE, again |-> FALSE,
   run |-> OffScenario]

OnScenario(r) == r # OffScenario

HistDispatch(h, b, now) ==
  [motor |-> IF b \in MotorBytes THEN b ELSE h.motor,
   face |-> IF b \in FaceBytes THEN b ELSE h.face,
   flipped |-> IF b \in FaceBytes THEN FALSE ELSE h.flipped,
   again |-> b = h.motor \/ b = h.face,
   run |-> IF /\ OnScenario(h.run)
              /\ Len(h.run) < Len(Scenario)
              /\ b = Scenario[Len(h.run) + 1]
              /\ now = U32(0)
           THEN Append(h.run, b)
           ELSE OffScenario]

HistPoll(h, flip, now) ==
  [h EXCEPT !.flipped = @ \/ flip,
            !.again = FALSE,
            !.run = IF now = U32(0) THEN @ ELSE OffScenario]

HistIdle(h) == [h EXCEPT !.again = FALSE, !.run = OffScenario]

(* ---------------- motor functions ---------------- *)

\* analogWrite(ENA, a); analogWrite(ENB, b); digitalWrite(IN1..IN4, ...)
WritePins(a, b, i1, i2, i3, i4) ==
  (ENA :> a) @@ (ENB :> b) @@ (IN1 :> i1) @@ (IN2 :> i2) @@ (IN3 :> i3) @@ (IN4 :> i4)

\* stopMotors that pulls the direction pins low and leaves the PWM duty
stopMotorsKeepSpeed == [pins |-> WritePins(200, 200, LOW, LOW, LOW, LOW), out |-> <<"Stop">>]

\* leftTurn at the speed of straight motion
leftTurnFast == [pins |-> WritePins(200, 200, LOW, HIGH, HIGH, LOW), out |-> <<"Left">>]

forward == [pins |-> WritePins(200, 200, HIGH, LOW, HIGH, LOW), out |-> <<"Forward">>]
backward == [pins |-> WritePins(200, 200, LOW, HIGH, LOW, HIGH), out |-> <<"Backward">>]
leftTurn == [pins |-> WritePins(180, 180, LOW, HIGH, HIGH, LOW), out |-> <<"Left">>]
rightTurn == [pins |-> WritePins(180, 180, HIGH, LOW, LOW, HIGH), out |-> <<"Right">>]
stopMotors == [pins |-> WritePins(0, 0, LOW, LOW, LOW, LOW), out |-> <<"Stop">>]

\* what the L298N does with one side's two direction pins
Dir(a, b) ==
  CASE a = HIGH /\ b = LOW -> "Forward"
    [] a = LOW /\ b = HIGH -> "Reverse"
    [] a = LOW /\ b = LOW -> "Neutral"
    [] OTHER -> "Brake"

\* per side: direction and PWM magnitude
MotorOutput(p) ==
  [left |-> [dir |-> Dir(p[IN1], p[IN2]), mag |-> p[ENA]],
   right |-> [dir |-> Dir(p[IN3], p[IN4]), mag |-> p[ENB]]]

\* the switch with the letters of the README table (F forward, B backward,
\* L left, R right)
MotorCaseReadme(c) ==
  CASE c = "F" -> forward
    [] c = "B" -> backward
    [] c = "L" -> leftTurn
    [] c = "R" -> rightTurn
    [] c = "S" -> stopMotors

\* motor cases that speed up when the command already in force is repeated
MotorCaseRamp(c) ==
  LET m == CASE c = "B" -> forward
             [] c = "F" -> backward
             [] c = "R" -> leftTurn
             [] c = "L" -> rightTurn
             [] c = "S" -> stopMotors
  IN IF c # "S" /\ pin = m.pins
     THEN [m EXCEPT !.pins = [m.pins EXCEPT ![ENA] = 255, ![ENB] = 255]]
     ELSE m

\* the motor cases of the switch in loop()
MotorCase(c) ==
  CASE c = "B" -> forward
    [] c = "F" -> backward
    [] c = "R" -> leftTurn
    [] c = "L" -> rightTurn
    [] c = "S" -> stopMotors

(* ---------------- face functions: display calls ---------------- *)

Clear == <<"clearDisplay">>
Flush == <<"display">>
Rect(x, y, w, h) == <<"fillRect", x, y, w, h>>
Circle(x, y, r) == <<"fillCircle", x, y, r>>

\* drawBlinkFace without its clearDisplay()
drawBlinkFaceNoClear(open) ==
  (IF open
   THEN <<Rect(30, 20, 20, 20), Rect(80, 20, 20, 20)>>
   ELSE <<Rect(30, 27, 20, 6), Rect(80, 27, 20, 6)>>)
  \o <<Flush>>

drawBlinkFace(open) ==
  <<Clear>>
  \o (IF open
      THEN <<Rect(30, 20, 20, 20), Rect(80, 20, 20, 20)>>
      ELSE <<Rect(30, 27, 20, 6), Rect(80, 27, 20, 6)>>)
  \o <<Flush>>

\* drawFace whose Thinking branch forgets display.display()
drawFaceNoFlush(mode, open) ==
  <<Clear>>
  \o (IF mode = FACE_BLINK
      THEN drawBlinkFace(open)
      ELSE IF mode = FACE_THINK
      THEN <<Rect(30, 22, 16, 16), Rect(82, 22, 16, 16),
             Circle(48, 50, 4), Circle(64, 50, 4), Circle(80, 50, 4)>>
      ELSE <<>>)

drawFace(mode, open) ==
  <<Clear>>
  \o (IF mode = FACE_BLINK
      THEN drawBlinkFace(open)
      ELSE IF mode = FACE_THINK
      THEN <<Rect(30, 22, 16, 16), Rect(82, 22, 16, 16),
             Circle(48, 50, 4), Circle(64, 50, 4), Circle(80, 50, 4), Flush>>
      ELSE <<>>)

\* the display after a sequence of calls: d = [buf |-> frame buffer, scr |-> screen]
RECURSIVE RunDisplay(_, _)
RunDisplay(calls, d) ==
  IF calls = <<>> THEN d
  ELSE LET c == Head(calls)
           d2 == IF c = Clear THEN [d EXCEPT !.buf = {}]
                 ELSE IF c = Flush THEN [d EXCEPT !.scr = d.buf]
                 ELSE [d EXCEPT !.buf = d.buf \cup {c}]
       IN RunDisplay(Tail(calls), d2)

Draw(calls) ==
  LET d == RunDisplay(calls, [buf |-> buffer, scr |-> screen])
  IN /\ buffer' = d.buf
     /\ screen' = d.scr
     /\ dcalls' = calls

NoDraw == /\ dcalls' = <<>>
          /\ UNCHANGED <<buffer, screen>>

\* what the library leaves in the frame buffer after begin(), and what the
\* panel shows before its first flush
Splash == {<<"splash">>}
PowerOn == {<<"poweron">>}

(* ---------------- initial state ---------------- *)

Init ==
  /\ pc = "setup"
  /\ pin = [p \in Pins |-> LOW]
  /\ currentFace = FACE_BLINK
  /\ blinkOpen = TRUE
  /\ lastBlinkChange = U32(0)
  /\ clock = U32(0)
  /\ rx = <<>>
  /\ cmd = NoCmd
  /\ buffer = {}
  /\ screen = PowerOn
  /\ dcalls = <<>>
  /\ sout = <<>>
  /\ hist = HistInit

(* ---------------- setup() ---------------- *)

\* Serial.begin, pinMode x6, stopMotors()
SetupMotors ==
  /\ pc = "setup"
  /\ pin' = stopMotors.pins
  /\ sout' = stopMotors.out
  /\ pc' = "begin"
  /\ NoDraw
  /\ UNCHANGED <<currentFace, blinkOpen, lastBlinkChange, clock, rx, cmd, hist>>

\* display.begin whose failure branch lacks the for(;;); and falls through
DisplayBeginNoHalt ==
  /\ pc = "begin"
  /\ \E ok \in BOOLEAN :
       IF ok
       THEN /\ pc' = "face"
            /\ buffer' = Splash
            /\ sout' = <<>>
       ELSE /\ pc' = "face"
            /\ buffer' = buffer
            /\ sout' = <<"SSD1306 failed">>
  /\ dcalls' = <<>>
  /\ UNCHANGED <<pin, currentFace, blinkOpen, lastBlinkChange, clock, rx, cmd, screen, hist>>

\* display.begin(...) succeeds or fails; on failure: report and for(;;);
\* The empty for(;;); has no exit, and the GCC toolchains of the Arduino cores
\* keep such a loop, so the outcome of the failure branch is the halt.
DisplayBegin ==
  /\ pc = "begin"
  /\ \E ok \in BOOLEAN :
       IF ok
       THEN /\ pc' = "face"
            /\ buffer' = Splash
            /\ sout' = <<>>
       ELSE /\ pc' = "halt"
            /\ buffer' = buffer
            /\ sout' = <<"SSD1306 failed">>
  /\ dcalls' = <<>>
  /\ UNCHANGED <<pin, currentFace, blinkOpen, lastBlinkChange, clock, rx, cmd, screen, hist>>

\* the end of setup() without lastBlinkChange = millis()
SetupFaceStaleTimer ==
  /\ pc = "face"
  /\ \E now \in MillisReads(clock) : clock' = now
  /\ hist' = [hist EXCEPT !.run = IF clock' = U32(0) THEN <<>> ELSE OffScenario]
  /\ currentFace' = FACE_BLINK
  /\ blinkOpen' = TRUE
  /\ Draw(<<Clear>> \o drawFace(FACE_BLINK, TRUE))
  /\ sout' = <<"READY", "Motor controls", "Face controls">>
  /\ pc' = "serial"
  /\ UNCHANGED <<pin, rx, cmd, lastBlinkChange>>

\* clearDisplay, currentFace/blinkOpen/lastBlinkChange, drawFace, READY lines
SetupFace ==
  /\ pc = "face"
  /\ \E now \in MillisReads(clock) :
       /\ clock' = now
       /\ lastBlinkChange' = now
  /\ hist' = [hist EXCEPT !.run = IF clock' = U32(0) THEN <<>> ELSE OffScenario]
  /\ currentFace' = FACE_BLINK
  /\ blinkOpen' = TRUE
  /\ Draw(<<Clear>> \o drawFace(FACE_BLINK, TRUE))
  /\ sout' = <<"READY", "Motor controls", "Face controls">>
  /\ pc' = "serial"
  /\ UNCHANGED <<pin, rx, cmd>>

(* ---------------- serial receive (UART interrupt) ---------------- *)

\* A byte sent by the host is queued. The queue is looked at only at the top
\* of loop(), so a byte that arrives at another point of the iteration is the
\* same to the program as one that arrives just before the next
\* Serial.available(); after a failed startup bytes still arrive.
Receive ==
  /\ pc \in {"serial", "halt"}
  /\ Len(rx) < MaxQueue
  /\ \E b \in Bytes : rx' = Append(rx, b)
  /\ UNCHANGED <<pc, pin, currentFace, blinkOpen, lastBlinkChange, clock,
                 cmd, buffer, screen, dcalls, sout, hist>>

(* ---------------- loop(): serial handling ---------------- *)

\* Serial.available()
Available(q) == Len(q) > 0

\* Serial.read(): the byte returned and the queue left
ReadByte(q) == Head(q)

\* a peek: the byte stays in the queue
AfterReadPeek(q) == q

\* a read that drains the whole queue
AfterReadAll(q) == <<>>

AfterRead(q) == Tail(q)

\* if (Serial.available()) is false: nothing is read
LoopNoInput ==
  /\ pc = "serial"
  /\ ~Available(rx)
  /\ cmd' = NoCmd
  /\ sout' = <<>>
  /\ NoDraw
  /\ pc' = "poll"
  /\ hist' = HistIdle(hist)
  /\ UNCHANGED <<pin, currentFace, blinkOpen, lastBlinkChange, clock, rx>>

\* a motor case that also opens the eyes and redraws the face
LoopMotorWakes ==
  /\ pc = "serial"
  /\ Available(rx)
  /\ ReadByte(rx) \in MotorBytes
  /\ cmd' = ReadByte(rx)
  /\ rx' = AfterRead(rx)
  /\ pin' = MotorCase(ReadByte(rx)).pins
  /\ sout' = MotorCase(ReadByte(rx)).out
  /\ blinkOpen' = TRUE
  /\ Draw(drawFace(currentFace, TRUE))
  /\ pc' = "poll"
  /\ hist' = HistDispatch(hist, ReadByte(rx), clock)
  /\ UNCHANGED <<currentFace, lastBlinkChange, clock>>

\* case 'B', 'F', 'R', 'L', 'S'
LoopMotor ==
  /\ pc = "serial"
  /\ Available(rx)
  /\ ReadByte(rx) \in MotorBytes
  /\ cmd' = ReadByte(rx)
  /\ rx' = AfterRead(rx)
  /\ pin' = MotorCase(ReadByte(rx)).pins
  /\ sout' = MotorCase(ReadByte(rx)).out
  /\ NoDraw
  /\ pc' = "poll"
  /\ hist' = HistDispatch(hist, ReadByte(rx), clock)
  /\ UNCHANGED <<currentFace, blinkOpen, lastBlinkChange, clock>>

\* case 'O' without lastBlinkChange = millis()
BlinkStartStale(now, last) == last

\* the timestamp case 'O' stores, given the value millis() returned
BlinkStart(now, last) == now

\* case 'O'
LoopFaceO ==
  /\ pc = "serial"
  /\ Available(rx)
  /\ ReadByte(rx) = "O"
  /\ cmd' = "O"
  /\ rx' = AfterRead(rx)
  /\ currentFace' = FACE_BLINK
  /\ blinkOpen' = TRUE
  /\ \E now \in MillisReads(clock) :
       /\ clock' = now
       /\ lastBlinkChange' = BlinkStart(now, lastBlinkChange)
  /\ Draw(drawFace(FACE_BLINK, TRUE))
  /\ sout' = <<"Face Blinking">>
  /\ pc' = "poll"
  /\ hist' = HistDispatch(hist, "O", clock')
  /\ UNCHANGED pin

\* case 'T' that also stops the motors
LoopFaceTStops ==
  /\ pc = "serial"
  /\ Available(rx)
  /\ ReadByte(rx) = "T"
  /\ cmd' = "T"
  /\ rx' = AfterRead(rx)
  /\ currentFace' = FACE_THINK
  /\ Draw(drawFace(FACE_THINK, blinkOpen))
  /\ sout' = <<"Face Thinking">>
  /\ pc' = "poll"
  /\ hist' = HistDispatch(hist, "T", clock)
  /\ pin' = stopMotors.pins
  /\ UNCHANGED <<blinkOpen, lastBlinkChange, clock>>

\* case 'T'
LoopFaceT ==
  /\ pc = "serial"
  /\ Available(rx)
  /\ ReadByte(rx) = "T"
  /\ cmd' = "T"
  /\ rx' = AfterRead(rx)
  /\ currentFace' = FACE_THINK
  /\ Draw(drawFace(FACE_THINK, blinkOpen))
  /\ sout' = <<"Face Thinking">>
  /\ pc' = "poll"
  /\ hist' = HistDispatch(hist, "T", clock)
  /\ UNCHANGED <<pin, blinkOpen, lastBlinkChange, clock>>

\* a default case that also stops the motors
DefaultStops(p) == stopMotors.pins

\* what the default case does to the motor pins
DefaultPins(p) == p

\* default:
LoopUnknown ==
  /\ pc = "serial"
  /\ Available(rx)
  /\ ReadByte(rx) \notin KnownBytes
  /\ cmd' = ReadByte(rx)
  /\ rx' = AfterRead(rx)
  /\ pin' = DefaultPins(pin)
  /\ sout' = <<"Unknown command">>
  /\ NoDraw
  /\ pc' = "poll"
  /\ hist' = HistDispatch(hist, ReadByte(rx), clock)
  /\ UNCHANGED <<currentFace, blinkOpen, lastBlinkChange, clock>>

(* ---------------- loop(): blinking logic ---------------- *)

interval(open) == IF open THEN BLINK_OPEN_DURATION ELSE BLINK_CLOSED_DURATION

\* the comparison written with > instead of >=
BlinkDueStrict(now, last, open) ==
  Sub32(now, last) # U32(interval(open)) /\ Geq32(Sub32(now, last), U32(interval(open)))

\* the difference taken without wraparound: never due while now < last
BlinkDueNoWrap(now, last, open) ==
  Geq32(now, last) /\ Geq32(Sub32(now, last), U32(interval(open)))

\* now - lastBlinkChange >= interval
BlinkDue(now, last, open) == Geq32(Sub32(now, last), U32(interval(open)))

\* blinking logic without the face-mode test
PollAlways(mode) == TRUE

\* the face-mode test inverted
PollInverted(mode) == mode # FACE_BLINK

\* if (currentFace == FACE_BLINK)
PollActive(mode) == mode = FACE_BLINK

LoopPoll ==
  /\ pc = "poll"
  /\ IF PollActive(currentFace)
     THEN \E now \in MillisReads(clock) :
            /\ clock' = now
            /\ IF BlinkDue(now, lastBlinkChange, blinkOpen)
               THEN /\ blinkOpen' = ~blinkOpen
                    /\ lastBlinkChange' = now
                    /\ Draw(drawBlinkFace(~blinkOpen))
               ELSE /\ NoDraw
                    /\ UNCHANGED <<blinkOpen, lastBlinkChange>>
     ELSE /\ NoDraw
          /\ UNCHANGED <<blinkOpen, lastBlinkChange, clock>>
  /\ hist' = HistPoll(hist, blinkOpen' # blinkOpen, clock')
  /\ cmd' = NoCmd
  /\ sout' = <<>>
  /\ pc' = "serial"
  /\ UNCHANGED <<pin, currentFace, rx>>

(* ---------------- time passing while Thinking ---------------- *)

\* While the face is Thinking the sketch never calls millis(), and the
\* millisecond counter runs on for any length of time (wrapping included).
ThinkingTime ==
  /\ pc = "serial"
  /\ currentFace = FACE_THINK
  /\ \E t \in ClockPoints : t # clock /\ clock' = t
  /\ hist' = [hist EXCEPT !.run = OffScenario]
  /\ UNCHANGED <<pc, pin, currentFace, blinkOpen, lastBlinkChange,
                 rx, cmd, buffer, screen, dcalls, sout>>

(* ---------------- the program ---------------- *)

Next ==
  \/ SetupMotors
  \/ DisplayBegin
  \/ SetupFace
  \/ Receive
  \/ LoopNoInput
  \/ LoopMotor
  \/ LoopFaceO
  \/ LoopFaceT
  \/ LoopUnknown
  \/ LoopPoll
  \/ ThinkingTime

Spec == Init /\ [][Next]_vars

\* loop() is called again and again: an iteration that can go on does
LoopStep ==
  LoopNoInput \/ LoopMotor \/ LoopFaceO \/ LoopFaceT \/ LoopUnknown \/ LoopPoll

SpecFair == Spec /\ WF_vars(LoopStep)

\* a poll whose millis() call returns a later value than the last one read
MillisAdvance == LoopPoll /\ clock' # clock

\* loop() keeps running and the millisecond counter keeps advancing: the
\* polls of the Blinking face do not read one and the same value for ever
SpecLive == Spec /\ WF_vars(LoopStep) /\ SF_vars(MillisAdvance)

(***************************************************************************)
(*                              Properties                                 *)
(***************************************************************************)

\* steps of loop(): its serial handling, and its blinking logic
SerialStep == pc = "serial" /\ pc' = "poll"
PollStep == pc = "poll" /\ pc' = "serial"
InLoop == pc \in {"serial", "poll"}

Side(d, m) == [dir |-> d, mag |-> m]
Output(ld, rd, m) == [left |-> Side(ld, m), right |-> Side(rd, m)]
StopOutput == Output("Neutral", "Neutral", 0)

\* the command table of the specification, as motor outputs
TableOutput(c) ==
  CASE c = "F" -> Output("Reverse", "Reverse", 200)
    [] c = "B" -> Output("Forward", "Forward", 200)
    [] c = "R" -> Output("Reverse", "Forward", 180)
    [] c = "L" -> Output("Forward", "Reverse", 180)
    [] c = "S" -> StopOutput

\* the three frames
OpenFrame == {Rect(30, 20, 20, 20), Rect(80, 20, 20, 20)}
ClosedFrame == {Rect(30, 27, 20, 6), Rect(80, 27, 20, 6)}
ThinkFrame == {Rect(30, 22, 16, 16), Rect(82, 22, 16, 16),
               Circle(48, 50, 4), Circle(64, 50, 4), Circle(80, 50, 4)}

FrameOf(mode, open) ==
  IF mode = FACE_THINK THEN ThinkFrame
  ELSE IF open THEN OpenFrame ELSE ClosedFrame

C2_ReadmeTable ==
  (pc = "poll" /\ cmd \in MotorBytes) => pin = MotorCaseReadme(cmd).pins

\* C3: a poll while Blinking flips the phase exactly when now - last is at
\* least the dwell of the current phase (3000 open, 200 closed), a flip stores
\* now as the last transition time, and a poll that does not flip leaves the
\* timer alone; so from EyesOpen since 0 a poll at 2999 keeps EyesOpen and one
\* at 3000 closes, and from EyesClosed since 3000 a poll at 3199 keeps
\* EyesClosed and one at 3200 opens.
C3_BlinkFlipIff ==
  [][(PollStep /\ currentFace = FACE_BLINK) =>
       LET elapsed == Sub32(clock', lastBlinkChange)
           dwell == IF blinkOpen THEN 3000 ELSE 200
       IN /\ (blinkOpen' # blinkOpen) <=> Geq32(elapsed, U32(dwell))
          /\ (blinkOpen' # blinkOpen) => lastBlinkChange' = clock'
          /\ (blinkOpen' = blinkOpen) => lastBlinkChange' = lastBlinkChange
          /\ (blinkOpen /\ lastBlinkChange = U32(0) /\ clock' = U32(2999)) => blinkOpen'
          /\ (blinkOpen /\ lastBlinkChange = U32(0) /\ clock' = U32(3000)) => ~blinkOpen'
          /\ (~blinkOpen /\ lastBlinkChange = U32(3000) /\ clock' = U32(3199)) => ~blinkOpen'
          /\ (~blinkOpen /\ lastBlinkChange = U32(3000) /\ clock' = U32(3200)) => blinkOpen'
    ]_vars

\* the eyes have just been reopened by a poll at 3200
C3_Witness ==
  /\ pc = "serial"
  /\ currentFace = FACE_BLINK
  /\ blinkOpen
  /\ lastBlinkChange = U32(3200)
  /\ clock = U32(3200)
  /\ dcalls = drawBlinkFace(TRUE)

\* C4: dispatching O, from any face mode, phase and timer value, gives
\* Blinking, EyesOpen and a last transition time equal to the clock value read
\* in that dispatch; the poll of the same iteration flips only if 3000 ms have
\* passed since that value.
C4_BlinkCommandResets ==
  [][/\ (SerialStep /\ Available(rx) /\ ReadByte(rx) = "O") =>
          /\ currentFace' = FACE_BLINK
          /\ blinkOpen'
          /\ lastBlinkChange' = clock'
     /\ (PollStep /\ cmd = "O") =>
          /\ blinkOpen' <=> ~Geq32(Sub32(clock', lastBlinkChange), U32(3000))
          /\ blinkOpen' => lastBlinkChange' = lastBlinkChange
    ]_vars

\* O has been dispatched just before the clock wraps, with the eyes closed
\* and the timer of an earlier Blinking period left over from a Thinking period
C4_Witness ==
  /\ pc = "poll"
  /\ cmd = "O"
  /\ currentFace = FACE_BLINK
  /\ blinkOpen
  /\ lastBlinkChange = PreWrap
  /\ clock = PreWrap

\* C5: a poll while Thinking changes neither the phase, nor the last
\* transition time, nor the face mode, and makes no display call, whatever the
\* clock shows.
C5_ThinkingPollNoop ==
  [][(PollStep /\ currentFace = FACE_THINK) =>
       /\ UNCHANGED <<blinkOpen, lastBlinkChange, currentFace, buffer, screen>>
       /\ dcalls' = <<>>
    ]_vars

\* a poll has run while Thinking with the open-eyes dwell long over
C5_Witness ==
  /\ pc = "serial"
  /\ cmd = NoCmd
  /\ dcalls = <<>>
  /\ currentFace = FACE_THINK
  /\ blinkOpen
  /\ screen = ThinkFrame
  /\ Geq32(Sub32(clock, lastBlinkChange), U32(BLINK_OPEN_DURATION))

\* C6: dispatching a byte outside F B R L S O T prints the unknown-command
\* report and leaves motor pins, face mode, phase, timer, frame buffer and
\* screen as they were, with no display call.
C6_UnknownByteIgnored ==
  [][(SerialStep /\ Available(rx) /\ ReadByte(rx) \notin {"F", "B", "R", "L", "S", "O", "T"}) =>
       /\ sout' = <<"Unknown command">>
       /\ UNCHANGED <<pin, currentFace, blinkOpen, lastBlinkChange, buffer, screen>>
       /\ dcalls' = <<>>
    ]_vars

\* lowercase f has been dispatched while the motors were running and the
\* face was Thinking
C6_Witness ==
  /\ pc = "poll"
  /\ cmd = "f"
  /\ sout = <<"Unknown command">>
  /\ MotorOutput(pin) = Output("Forward", "Forward", 200)
  /\ currentFace = FACE_THINK

\* C7: the serial handling of an iteration removes exactly the head byte of a
\* non-empty queue and nothing from an empty one, and goes on to the poll
\* either way; the poll removes nothing and dispatches nothing; so an
\* iteration dispatches at most one byte, before its poll.
C7_OneBytePerIteration ==
  /\ [](pc = "serial" /\ rx = <<>> => ENABLED LoopNoInput)
  /\ [](pc = "serial" => cmd = NoCmd)
  /\ [][/\ SerialStep =>
             IF rx = <<>>
             THEN rx' = <<>> /\ cmd' = NoCmd
             ELSE rx' = Tail(rx) /\ cmd' = Head(rx)
        /\ PollStep =>
             /\ rx' = rx
             /\ cmd' = NoCmd
             /\ pin' = pin
             /\ currentFace' = currentFace
        /\ pc = "serial" => pc' \in {"serial", "poll"}
        /\ pc = "poll" => pc' = "serial"
       ]_vars

\* one byte of two has been dispatched and the other is still queued
C7_Witness ==
  /\ pc = "poll"
  /\ cmd = "T"
  /\ rx = <<"S">>

\* C8: a failed display.begin() is reported and the sketch halts: from then
\* on the program counter stays in the halt loop, queued bytes are never
\* taken, nothing is drawn and no program state changes.
C8_DisplayFailureHalts ==
  /\ [](sout = <<"SSD1306 failed">> => pc = "halt")
  /\ [](pc = "halt" => /\ sout = <<"SSD1306 failed">>
                       /\ screen = PowerOn
                       /\ dcalls = <<>>
                       /\ cmd = NoCmd)
  /\ [][pc = "halt" =>
          /\ pc' = "halt"
          /\ Len(rx') >= Len(rx)
          /\ SubSeq(rx', 1, Len(rx)) = rx
          /\ UNCHANGED <<pin, currentFace, blinkOpen, lastBlinkChange, cmd,
                         buffer, screen, dcalls, sout>>
       ]_vars

\* halted, with bytes waiting that are never read
C8_Witness ==
  /\ pc = "halt"
  /\ Len(rx) = 2
  /\ screen = PowerOn

\* C9: setup() puts the motors to Stop, then initialises the display, then
\* enters Blinking; when it returns the motor output is Stop, the face is
\* Blinking with EyesOpen, the last transition time is the clock value read in
\* setup(), and the screen shows the open-eyes frame.
C9_StartupState ==
  /\ [](pc \in {"begin", "face", "halt"} => MotorOutput(pin) = StopOutput)
  /\ [](pc \in {"setup", "begin"} => buffer = {} /\ screen = PowerOn)
  /\ [](pc = "face" => buffer = Splash /\ screen = PowerOn)
  /\ [][(pc = "face" /\ pc' # "face") =>
          /\ pc' = "serial"
          /\ MotorOutput(pin') = StopOutput
          /\ currentFace' = FACE_BLINK
          /\ blinkOpen'
          /\ lastBlinkChange' = clock'
          /\ screen' = OpenFrame
          /\ buffer' = OpenFrame
       ]_vars

\* setup() has just returned, having read a clock value other than 0
C9_Witness ==
  /\ pc = "serial"
  /\ sout = <<"READY", "Motor controls", "Face controls">>
  /\ lastBlinkChange = U32(100)
  /\ clock = U32(100)
  /\ screen = OpenFrame
  /\ MotorOutput(pin) = StopOutput

\* C10: once setup() has returned, at the end of every iteration (and after
\* every dispatch) the screen shows the frame of the current state: the
\* Thinking frame when Thinking, the open-eyes frame when Blinking with
\* EyesOpen, the closed-eyes frame when Blinking with EyesClosed.
C10_ScreenMatchesState ==
  InLoop => screen = FrameOf(currentFace, blinkOpen)

\* Thinking was entered with the eyes closed: the screen shows the Thinking
\* frame at the end of an iteration
C10_Witness ==
  /\ pc = "serial"
  /\ currentFace = FACE_THINK
  /\ ~blinkOpen
  /\ screen = ThinkFrame

\* a dispatch of byte b by the serial handling
Dispatching(b) == SerialStep /\ Available(rx) /\ ReadByte(rx) = b

\* C11: dispatching a motor byte that is also the most recent motor byte
\* dispatched (the same command in a row, whatever non-motor bytes came in
\* between) leaves every motor pin as it was, and the output is still the one
\* of that byte; for S that is Neutral with magnitude 0 on both sides.
C11_MotorIdempotent ==
  [][\A b \in MotorBytes :
       (Dispatching(b) /\ hist.motor = b) =>
          /\ pin' = pin
          /\ MotorOutput(pin') = TableOutput(b)
          /\ (b = "S" => MotorOutput(pin') = StopOutput)
    ]_vars

\* F has been dispatched a second time in a row
C11_Witness ==
  /\ pc = "poll"
  /\ cmd = "F"
  /\ hist.again
  /\ hist.motor = "F"
  /\ MotorOutput(pin) = Output("Reverse", "Reverse", 200)

\* C12 as stated: dispatching the face byte that is the most recent face byte,
\* with no blink in between, leaves face mode, phase, timer and screen as the
\* first dispatch left them.
C12_FaceIdempotent ==
  [][\A b \in FaceBytes :
       (Dispatching(b) /\ hist.face = b /\ ~hist.flipped) =>
          UNCHANGED <<currentFace, blinkOpen, lastBlinkChange, screen>>
    ]_vars

\* C12 amended: T again after T leaves face mode, phase, timer and screen as
\* they were; O again after O gives again Blinking, EyesOpen and the open-eyes
\* frame, as the first O did, and sets the timer to the clock value read by
\* this dispatch, so the timer stays the same only when the clock has not
\* moved since the first O.
C12_FaceRepeat ==
  [][/\ (Dispatching("T") /\ hist.face = "T") =>
          UNCHANGED <<currentFace, blinkOpen, lastBlinkChange, screen>>
     /\ (Dispatching("O") /\ hist.face = "O") =>
          /\ currentFace' = FACE_BLINK /\ currentFace' = currentFace
          /\ blinkOpen'
          /\ screen' = OpenFrame
          /\ lastBlinkChange' = clock'
          /\ ~hist.flipped =>
               /\ UNCHANGED <<blinkOpen, screen>>
               /\ (lastBlinkChange' = lastBlinkChange) <=> (clock' = lastBlinkChange)
    ]_vars

\* O has been dispatched again after an O, at a later clock value
C12_Witness ==
  /\ pc = "poll"
  /\ cmd = "O"
  /\ hist.again
  /\ ~hist.flipped
  /\ lastBlinkChange = U32(2999)
  /\ blinkOpen
  /\ screen = OpenFrame

(* ---- C13 ---- *)

\* an 'O' or 'T' byte has arrived and is not dispatched yet
FaceCmdPending == \E i \in DOMAIN rx : rx[i] \in FaceBytes

\* C13: if from some point on the loop is running with the face mode
\* Blinking and no further 'O' or 'T' byte arrives, then (the loop being
\* called for ever and the clock advancing) the blink phase is EyesOpen
\* infinitely often and EyesClosed infinitely often: each phase is always
\* eventually followed by the other.
C13_BlinksForever ==
  <>[](InLoop /\ currentFace = FACE_BLINK /\ ~FaceCmdPending)
    => ([]<>blinkOpen /\ []<>(~blinkOpen))

\* the eyes have closed and a later poll has opened them again, with no
\* face command in between and none waiting
C13_Witness ==
  /\ pc = "serial"
  /\ currentFace = FACE_BLINK
  /\ blinkOpen
  /\ hist.flipped
  /\ lastBlinkChange = U32(100)
  /\ dcalls = drawBlinkFace(TRUE)
  /\ ~FaceCmdPending

(* ---- C14 ---- *)

\* the motor output and the face mode that the bytes dispatched so far call for
LastMotorOutput == TableOutput(IF hist.motor = NoCmd THEN "S" ELSE hist.motor)
LastFaceMode == IF hist.face = "T" THEN FACE_THINK ELSE FACE_BLINK

MotorDispatch == \E b \in MotorBytes : Dispatching(b)
FaceDispatch == \E b \in FaceBytes : Dispatching(b)

\* C15: the dispatch of a motor byte leaves face mode, blink phase, last
\* transition time and displayed frame as they were and draws nothing; the
\* animation poll never changes the face mode; neither the dispatch of a
\* face byte nor the poll changes the motor pins; and the face mode changes
\* in no step other than the dispatch of 'O' or 'T'.
C15_FrameConditions ==
  [][/\ MotorDispatch =>
          /\ UNCHANGED <<currentFace, blinkOpen, lastBlinkChange,
                         screen, buffer>>
          /\ dcalls' = <<>>
     /\ PollStep =>
          /\ currentFace' = currentFace
          /\ pin' = pin
          /\ MotorOutput(pin') = MotorOutput(pin)
     /\ FaceDispatch =>
          /\ pin' = pin
          /\ MotorOutput(pin') = MotorOutput(pin)
     /\ currentFace' # currentFace => FaceDispatch]_vars

\* a turn dispatched while the Thinking face is shown with the phase left
\* at EyesClosed
C15_Witness ==
  /\ pc = "poll" /\ cmd = "R"
  /\ currentFace = FACE_THINK /\ ~blinkOpen
  /\ screen = ThinkFrame
  /\ hist.face = "T"
  /\ MotorOutput(pin) = Output("Reverse", "Forward", 180)

(* ---- C16 ---- *)

Moving == {"Forward", "Reverse"}
Straight(o) == o.left.dir \in Moving /\ o.right.dir = o.left.dir
Turning(o) == o.left.dir \in Moving /\ o.right.dir \in Moving
                /\ o.right.dir # o.left.dir
Stopped(o) == o.left.dir = "Neutral" /\ o.right.dir = "Neutral"

\* C16: in the running loop (so at the end of startup and of every
\* iteration) the motor output is one of five configurations: straight
\* (both sides the same moving direction) at magnitude 200, turning (the
\* sides in opposite moving directions) at 180, or Stop (both Neutral) at 0;
\* both sides carry one magnitude, within 0..255, which is 0 exactly when
\* both directions are Neutral; and no side has both direction pins HIGH.
C16_FiveConfigurations ==
  InLoop =>
    LET o == MotorOutput(pin)
    IN /\ o \in {Output("Forward", "Forward", 200),
                 Output("Reverse", "Reverse", 200),
                 Output("Forward", "Reverse", 180),
                 Output("Reverse", "Forward", 180),
                 Output("Neutral", "Neutral", 0)}
       /\ Straight(o) \/ Turning(o) \/ Stopped(o)
       /\ Straight(o) => o.left.mag = 200
       /\ Turning(o) => o.left.mag = 180
       /\ Stopped(o) => o.left.mag = 0
       /\ o.left.mag = o.right.mag
       /\ o.left.mag \in 0..255
       /\ (o.left.mag = 0) <=> Stopped(o)
       /\ ~(pin[IN1] = HIGH /\ pin[IN2] = HIGH)
       /\ ~(pin[IN3] = HIGH /\ pin[IN4] = HIGH)
       /\ o.left.dir # "Brake" /\ o.right.dir # "Brake"

\* a left turn is in force at the end of an iteration
C16_Witness ==
  /\ pc = "serial"
  /\ hist.motor = "R"
  /\ Turning(MotorOutput(pin))
  /\ pin[ENA] = 180 /\ pin[ENB] = 180

(* ---- C17 ---- *)

IsShape(c) == c # Clear /\ c # Flush
ShapesOf(calls) == {calls[i] : i \in {k \in DOMAIN calls : IsShape(calls[k])}}

\* clear first, then shapes only, then one flush and nothing after it
RedrawOrder(calls) ==
  /\ Len(calls) >= 2
  /\ calls[1] = Clear
  /\ calls[Len(calls)] = Flush
  /\ \A i \in 1..(Len(calls) - 1) : calls[i] # Flush
  /\ \A i, j \in DOMAIN calls : (i < j /\ calls[j] = Clear) => calls[i] = Clear

\* C17: the startup redraw, the dispatch of 'O' or 'T' and every blink flip
\* issue display calls, and the calls of every step that issues any are in
\* the order clear, shapes of the state the step ends in, flush: nothing is
\* drawn before the clear, there is exactly one flush, it is the last call;
\* so in the running loop the frame buffer equals the displayed frame.
C17_RedrawOrder ==
  [][/\ (pc = "face" \/ FaceDispatch \/ (PollStep /\ blinkOpen' # blinkOpen))
          => dcalls' # <<>>
     /\ dcalls' # <<>> =>
          /\ RedrawOrder(dcalls')
          /\ ShapesOf(dcalls') = FrameOf(currentFace', blinkOpen')
          /\ buffer' = ShapesOf(dcalls')
     /\ pc' \in {"serial", "poll"} => buffer' = screen']_vars

\* a blink flip has just redrawn the closed eyes
C17_Witness ==
  /\ pc = "serial"
  /\ dcalls = <<Clear, Rect(30, 27, 20, 6), Rect(80, 27, 20, 6), Flush>>
  /\ buffer = ClosedFrame
  /\ screen = ClosedFrame

(* ---- C18 ---- *)

TopLimb == LimbBase - 1

\* C18: take a poll of the Blinking face whose last transition was in the
\* last 65536 ms before the counter wraps. If the value read is still before
\* the wrap, the phase flips exactly when now - last, taken on the low limbs,
\* has reached the dwell; if it is in the first 65536 ms after the wrap, the
\* phase flips exactly when the time to the wrap plus the time since it has
\* reached the dwell (3000 open, 200 closed); if it is further on, the dwell
\* is long past and the phase flips.
C18_WrapExact ==
  [][(PollStep /\ currentFace = FACE_BLINK /\ lastBlinkChange[1] = TopLimb) =>
       LET flip == blinkOpen' # blinkOpen
           dwell == interval(blinkOpen)
           toWrap == LimbBase - lastBlinkChange[2]
       IN /\ clock'[1] = TopLimb =>
               (flip <=> clock'[2] - lastBlinkChange[2] >= dwell)
          /\ clock'[1] = 0 =>
               (flip <=> toWrap + clock'[2] >= dwell)
          /\ clock'[1] \in 1..(TopLimb - 1) => flip
          /\ flip => lastBlinkChange' = clock']_vars

\* the eyes closed 100 ms before the wrap and a poll 99 ms after it has
\* left them closed
C18_Witness ==
  /\ pc = "serial"
  /\ currentFace = FACE_BLINK
  /\ ~blinkOpen
  /\ lastBlinkChange = PreWrap
  /\ clock = U32(99)
  /\ cmd = NoCmd
  /\ dcalls = <<>>

(* ---- C19 ---- *)

\* C19: the step that halts after a failed display initialisation starts and
\* ends with the motors at Stop (both sides Neutral, magnitude 0); every
\* halted state has the motors at Stop; and no step leaves the halted state
\* or writes a pin in it, whatever bytes arrive: the motors are at Stop for
\* ever.
C19_HaltedStaysStopped ==
  /\ [][(pc # "halt" /\ pc' = "halt") =>
          /\ MotorOutput(pin) = StopOutput
          /\ MotorOutput(pin') = StopOutput]_vars
  /\ [](pc = "halt" => /\ MotorOutput(pin) = StopOutput
                       /\ pin = stopMotors.pins)
  /\ [][pc = "halt" => (pc' = "halt" /\ pin' = pin)]_vars

\* halted with two movement bytes waiting, motors at Stop
C19_Witness ==
  /\ pc = "halt"
  /\ rx = <<"F", "B">>
  /\ MotorOutput(pin) = StopOutput

(* ---- C20 ---- *)

\* C20: in the running loop the queue changes only by a byte arriving at its
\* tail or by the iteration reading its head; an iteration with bytes
\* waiting dispatches exactly the head, leaves the others in their order and
\* goes on to the animation poll, which reads nothing, so n waiting bytes
\* take n iterations with one poll after each dispatch; and (loop() being
\* called for ever) whenever bytes are waiting a dispatch follows, which
\* by the above is that of the head and moves every other byte one place
\* up: so every byte accepted into the queue is eventually dispatched.
C20_FifoDispatch ==
  /\ [][InLoop =>
          /\ \/ rx' = rx
             \/ \E b \in Bytes : rx' = Append(rx, b)
             \/ rx # <<>> /\ rx' = Tail(rx)
          /\ (SerialStep /\ rx # <<>>) =>
               /\ cmd' = Head(rx)
               /\ rx' = Tail(rx)
               /\ Len(rx') = Len(rx) - 1
               /\ \A k \in 2..Len(rx) : rx'[k - 1] = rx[k]
          /\ (rx # <<>> /\ rx' = Tail(rx)) => SerialStep
          /\ PollStep => rx' = rx
          /\ (pc = "poll" /\ pc' # pc) => PollStep]_vars
  /\ (pc = "serial" /\ rx # <<>>) ~> (pc = "poll" /\ cmd # NoCmd)

\* a burst F, O has been dispatched in its order in two iterations and the
\* queue is empty
C20_Witness ==
  /\ hist.run = <<"F", "O">>
  /\ rx = <<>>
  /\ pc = "poll"
  /\ cmd = "O"
  /\ hist.motor = "F"

====
